---- MODULE Spec2Model ----
(***************************************************************************)
(* Decoding and encoding of the AsyncAPI Channel and Operation entities,   *)
(* as the serde attributes of src/src/channel.rs and src/src/operations.rs *)
(* define them.  A document is a JSON object: a sequence of <<key, value>> *)
(* pairs in document order.  A run starts from a document or from a value  *)
(* and alternates decode and encode steps; hist records every stage.       *)
(***************************************************************************)
EXTENDS Integers, Sequences, FiniteSets, TLC

VARIABLES entity, hist

vars == <<entity, hist>>

\* Largest number of extension fields a document or a value carries.
MaxExt == 2
\* Largest number of stages (documents and values) of one run.
MaxSteps == 5

----------------------------------------------------------------------------
\* serde_json::Value: the structured-value tree.  An object is the sequence
\* of its members; the documents decoded here hold each key once.

JNull == [null |-> TRUE]
JStr(s) == [str |-> s]
JNum(n) == [num |-> n]
JArr(a) == [arr |-> a]
JObj(m) == [obj |-> m]

IsNull(j) == "null" \in DOMAIN j
IsStr(j) == "str" \in DOMAIN j
IsArr(j) == "arr" \in DOMAIN j
IsObj(j) == "obj" \in DOMAIN j

\* Result<T, Error> and Option<T>.
Ok(v) == [ok |-> v]
Err(e) == [err |-> e]
IsOk(r) == "ok" \in DOMAIN r
None == <<>>
Some(x) == <<x>>

\* Members of an object, looked up by key.
KeysOf(m) == {m[i][1] : i \in DOMAIN m}
Count(m, k) == Cardinality({i \in DOMAIN m : m[i][1] = k})
Lookup(m, k) == m[CHOOSE i \in DOMAIN m : m[i][1] = k][2]
Field(m, k) == IF k \in KeysOf(m) THEN Some(Lookup(m, k)) ELSE None

\* The values of a sequence of results, once every one of them is Ok.
AllOk(rs) == \A i \in DOMAIN rs : IsOk(rs[i])
Unwrap(rs) == [i \in DOMAIN rs |-> rs[i].ok]

----------------------------------------------------------------------------
\* Entities declared outside channel.rs and operations.rs.

\* An entity (Message, Parameter, ChannelBinding, Tag, ...) is decoded from an
\* object, its declared fields and extension bag kept, and encoded back to it.
DecodeEntity(j) == IF IsObj(j) THEN Ok([entity |-> j.obj]) ELSE Err("invalid type")
EncodeEntity(e) == JObj(e.entity)

\* ReferenceOr<T>: an object holding only a "$ref" string is a reference, any
\* other document value is tried as T.
IsReferenceObject(j) ==
    /\ IsObj(j)
    /\ Len(j.obj) = 1
    /\ j.obj[1][1] = "$ref"
    /\ IsStr(j.obj[1][2])
DecodeReferenceOr(j) ==
    IF IsReferenceObject(j) THEN Ok([Reference |-> j.obj[1][2].str])
    ELSE IF IsOk(DecodeEntity(j)) THEN Ok([Item |-> DecodeEntity(j).ok])
    ELSE Err("data did not match any variant of untagged enum ReferenceOr")
EncodeReferenceOr(r) ==
    IF "Reference" \in DOMAIN r THEN JObj(<< <<"$ref", JStr(r.Reference)>> >>)
    ELSE EncodeEntity(r.Item)

\* A map of names to ReferenceOr<T>.
DecodeReferenceMap(j) ==
    IF ~IsObj(j) THEN Err("invalid type")
    ELSE LET rs == [i \in DOMAIN j.obj |-> DecodeReferenceOr(j.obj[i][2])]
         IN IF AllOk(rs)
            THEN Ok([i \in DOMAIN j.obj |-> <<j.obj[i][1], rs[i].ok>>])
            ELSE Err("invalid value")
EncodeReferenceMap(m) == JObj([i \in DOMAIN m |-> <<m[i][1], EncodeReferenceOr(m[i][2])>>])

----------------------------------------------------------------------------
\* Field types shared by Channel and Operation.  f is the field's member of
\* the document: None when the key is absent, Some(value) otherwise.

\* Mutation of DecodeOptionString: a value that is no string is taken as None.
DecodeOptionStringLenient(f) ==
    IF f = None \/ ~IsStr(f[1]) THEN Ok(None) ELSE Ok(Some(f[1].str))

\* Option<String>: an absent key and null are None.
DecodeOptionString(f) ==
    IF f = None \/ IsNull(f[1]) THEN Ok(None)
    ELSE IF IsStr(f[1]) THEN Ok(Some(f[1].str))
    ELSE Err("invalid type")
\* skip_serializing_if = "Option::is_none"
EncodeOptionString(k, o) == IF o = None THEN <<>> ELSE << <<k, JStr(o[1])>> >>

\* Option<ReferenceOr<T>>
DecodeOptionReferenceOr(f) ==
    IF f = None \/ IsNull(f[1]) THEN Ok(None)
    ELSE IF IsOk(DecodeReferenceOr(f[1])) THEN Ok(Some(DecodeReferenceOr(f[1]).ok))
    ELSE DecodeReferenceOr(f[1])
EncodeOptionReferenceOr(k, o) ==
    IF o = None THEN <<>> ELSE << <<k, EncodeReferenceOr(o[1])>> >>

\* Mutation of CollectExtensions: a bag that does not keep insertion order.
CollectExtensionsReversed(m, declared) ==
    LET x == SelectSeq(m, LAMBDA p : p[1] \notin declared)
    IN [i \in DOMAIN x |-> x[Len(x) + 1 - i]]
\* Mutation of EmitExtensions: the bag written under a key of its own.
EmitExtensionsNested(x) == IF x = <<>> THEN <<>> ELSE << <<"extensions", JObj(x)>> >>

\* #[serde(flatten)] extensions: IndexMap<String, serde_json::Value>: the
\* members whose key is no declared field name, in document order.
CollectExtensions(m, declared) == SelectSeq(m, LAMBDA p : p[1] \notin declared)
\* Flattened: the members of the bag are members of the entity's own object.
EmitExtensions(x) == x

----------------------------------------------------------------------------
\* Channel (channel.rs)

ChannelFieldNames ==
    {"messages", "address", "description", "servers", "parameters", "bindings", "$ref"}

\* Mutation of DecodeChannelMessageType: Single tried before Map.
DecodeChannelMessageTypeSingleFirst(j) ==
    IF IsOk(DecodeReferenceOr(j)) THEN Ok([Single |-> DecodeReferenceOr(j).ok])
    ELSE IF IsOk(DecodeReferenceMap(j)) THEN Ok([Map |-> DecodeReferenceMap(j).ok])
    ELSE Err("data did not match any variant of untagged enum OperationMessageType")

\* enum OperationMessageType { Map(..), Single(..) }, untagged: the variants
\* are tried in declaration order.
DecodeChannelMessageType(j) ==
    IF IsOk(DecodeReferenceMap(j)) THEN Ok([Map |-> DecodeReferenceMap(j).ok])
    ELSE IF IsOk(DecodeReferenceOr(j)) THEN Ok([Single |-> DecodeReferenceOr(j).ok])
    ELSE Err("data did not match any variant of untagged enum OperationMessageType")
EncodeChannelMessageType(t) ==
    IF "Map" \in DOMAIN t THEN EncodeReferenceMap(t.Map) ELSE EncodeReferenceOr(t.Single)

\* One entry of messages: Option<OperationMessageType>.
DecodeMessageEntry(j) ==
    IF IsNull(j) THEN Ok(None)
    ELSE IF IsOk(DecodeChannelMessageType(j)) THEN Ok(Some(DecodeChannelMessageType(j).ok))
    ELSE DecodeChannelMessageType(j)
EncodeMessageEntry(o) == IF o = None THEN JNull ELSE EncodeChannelMessageType(o[1])

\* Mutation of EncodeChannelMessages: a map of one entry written as the entry.
EncodeChannelMessagesCollapsed(ms) ==
    IF Len(ms) = 1 THEN << <<"messages", EncodeMessageEntry(ms[1][2])>> >>
    ELSE << <<"messages",
              JObj([i \in DOMAIN ms |-> <<ms[i][1], EncodeMessageEntry(ms[i][2])>>])>> >>

\* messages: IndexMap<String, Option<OperationMessageType>>, a required field.
DecodeChannelMessages(f) ==
    IF f = None THEN Err("missing field messages")
    ELSE IF ~IsObj(f[1]) THEN Err("invalid type")
    ELSE LET m == f[1].obj
             rs == [i \in DOMAIN m |-> DecodeMessageEntry(m[i][2])]
         IN IF AllOk(rs) THEN Ok([i \in DOMAIN m |-> <<m[i][1], rs[i].ok>>])
            ELSE Err("invalid value")
EncodeChannelMessages(ms) ==
    << <<"messages", JObj([i \in DOMAIN ms |-> <<ms[i][1], EncodeMessageEntry(ms[i][2])>>])>> >>

\* Mutation of DecodeServers: the field without #[serde(default)].
DecodeServersRequired(f) ==
    IF f = None THEN Err("missing field servers")
    ELSE IF ~IsArr(f[1]) THEN Err("invalid type")
    ELSE IF \A i \in DOMAIN f[1].arr : IsStr(f[1].arr[i])
         THEN Ok([i \in DOMAIN f[1].arr |-> f[1].arr[i].str])
         ELSE Err("invalid type")
\* Mutation of EncodeServers: the field without skip_serializing_if.
EncodeServersAlways(s) == << <<"servers", JArr([i \in DOMAIN s |-> JStr(s[i])])>> >>

\* servers: Vec<String>, #[serde(default)]
DecodeServers(f) ==
    IF f = None THEN Ok(<<>>)
    ELSE IF ~IsArr(f[1]) THEN Err("invalid type")
    ELSE IF \A i \in DOMAIN f[1].arr : IsStr(f[1].arr[i])
         THEN Ok([i \in DOMAIN f[1].arr |-> f[1].arr[i].str])
         ELSE Err("invalid type")
\* skip_serializing_if = "Vec::is_empty"
EncodeServers(s) ==
    IF s = <<>> THEN <<>> ELSE << <<"servers", JArr([i \in DOMAIN s |-> JStr(s[i])])>> >>

\* parameters: IndexMap<String, ReferenceOr<Parameter>>, #[serde(default)]
DecodeParameters(f) == IF f = None THEN Ok(<<>>) ELSE DecodeReferenceMap(f[1])
\* skip_serializing_if = "IndexMap::is_empty"
EncodeParameters(p) ==
    IF p = <<>> THEN <<>> ELSE << <<"parameters", EncodeReferenceMap(p)>> >>

ChannelExtensions(m) == CollectExtensions(m, ChannelFieldNames)

\* Deserialize for Channel: every declared field is decoded from its member,
\* the other members are collected, and the first error ends the decoding.
DecodeChannel(m) ==
    LET messages == DecodeChannelMessages(Field(m, "messages"))
        address == DecodeOptionString(Field(m, "address"))
        description == DecodeOptionString(Field(m, "description"))
        servers == DecodeServers(Field(m, "servers"))
        parameters == DecodeParameters(Field(m, "parameters"))
        bindings == DecodeOptionReferenceOr(Field(m, "bindings"))
        reference == DecodeOptionString(Field(m, "$ref"))
    IN IF \E k \in ChannelFieldNames : Count(m, k) > 1 THEN Err("duplicate field")
       ELSE IF ~IsOk(messages) THEN messages
       ELSE IF ~IsOk(address) THEN address
       ELSE IF ~IsOk(description) THEN description
       ELSE IF ~IsOk(servers) THEN servers
       ELSE IF ~IsOk(parameters) THEN parameters
       ELSE IF ~IsOk(bindings) THEN bindings
       ELSE IF ~IsOk(reference) THEN reference
       ELSE Ok([messages |-> messages.ok,
                address |-> address.ok,
                description |-> description.ok,
                servers |-> servers.ok,
                parameters |-> parameters.ok,
                bindings |-> bindings.ok,
                extensions |-> ChannelExtensions(m),
                reference |-> reference.ok])

\* Serialize for Channel: the fields in declaration order.
EncodeChannel(c) ==
    EncodeChannelMessages(c.messages)
    \o EncodeOptionString("address", c.address)
    \o EncodeOptionString("description", c.description)
    \o EncodeServers(c.servers)
    \o EncodeParameters(c.parameters)
    \o EncodeOptionReferenceOr("bindings", c.bindings)
    \o EmitExtensions(c.extensions)
    \o EncodeOptionString("$ref", c.reference)

----------------------------------------------------------------------------
\* Operation (operations.rs)

OperationFieldNames ==
    {"action", "channel", "messages", "operationId", "summary", "description",
     "tags", "externalDocs", "bindings", "traits"}

\* enum ActionType { Receive, Send }: a unit variant is written as its name,
\* and read from its name or from the one-member object {name: null}.
DecodeActionType(j) ==
    IF j = JStr("receive") \/ j = JObj(<< <<"receive", JNull>> >>) THEN Ok("Receive")
    ELSE IF j = JStr("send") \/ j = JObj(<< <<"send", JNull>> >>) THEN Ok("Send")
    ELSE Err("unknown variant or invalid type")
EncodeActionType(a) == IF a = "Send" THEN JStr("send") ELSE JStr("receive")

\* impl Default for ActionType
DefaultActionType == "Receive"

\* Mutation of DecodeAction: the field with #[serde(default)].
DecodeActionDefaulted(f) ==
    IF f = None THEN Ok(DefaultActionType) ELSE DecodeActionType(f[1])

\* action: ActionType, a field without #[serde(default)].
DecodeAction(f) ==
    IF f = None THEN Err("missing field action") ELSE DecodeActionType(f[1])

\* Schema is an entity declared outside operations.rs: it is decoded from an
\* object and encoded back to it.
DecodeSchema(j) == IF IsObj(j) THEN Ok([schema |-> j.obj]) ELSE Err("invalid type")
EncodeSchema(s) == JObj(s.schema)

\* Mutation of DecodeOperationChannelType: Any declared before Schema.
DecodeOperationChannelTypeAnyFirst(j) == Ok([Any |-> j])
\* Mutation of DecodeOperationMessageType: no Any variant.
DecodeOperationMessageTypeSchemaOnly(j) ==
    IF IsOk(DecodeSchema(j)) THEN Ok([Schema |-> DecodeSchema(j).ok])
    ELSE Err("data did not match any variant of untagged enum OperationMessageType")

\* enum OperationChannelType { Schema(Schema), Any(serde_json::Value) },
\* untagged: Schema is tried first, Any takes every value.
DecodeOperationChannelType(j) ==
    IF IsOk(DecodeSchema(j)) THEN Ok([Schema |-> DecodeSchema(j).ok]) ELSE Ok([Any |-> j])
\* enum OperationMessageType { Schema(Schema), Any(serde_json::Value) }
DecodeOperationMessageType(j) ==
    IF IsOk(DecodeSchema(j)) THEN Ok([Schema |-> DecodeSchema(j).ok]) ELSE Ok([Any |-> j])
EncodeSchemaOrAny(t) == IF "Schema" \in DOMAIN t THEN EncodeSchema(t.Schema) ELSE t.Any

\* channel: Option<OperationChannelType>
DecodeOperationChannel(f) ==
    IF f = None \/ IsNull(f[1]) THEN Ok(None)
    ELSE IF IsOk(DecodeOperationChannelType(f[1]))
         THEN Ok(Some(DecodeOperationChannelType(f[1]).ok))
         ELSE DecodeOperationChannelType(f[1])
EncodeOperationChannel(o) ==
    IF o = None THEN <<>> ELSE << <<"channel", EncodeSchemaOrAny(o[1])>> >>

\* messages: Option<Vec<OperationMessageType>>
DecodeOperationMessages(f) ==
    IF f = None \/ IsNull(f[1]) THEN Ok(None)
    ELSE IF ~IsArr(f[1]) THEN Err("invalid type")
    ELSE LET rs == [i \in DOMAIN f[1].arr |-> DecodeOperationMessageType(f[1].arr[i])]
         IN IF AllOk(rs) THEN Ok(Some(Unwrap(rs))) ELSE Err("invalid value")
EncodeOperationMessages(o) ==
    IF o = None THEN <<>>
    ELSE << <<"messages", JArr([i \in DOMAIN o[1] |-> EncodeSchemaOrAny(o[1][i])])>> >>

\* tags: Vec<Tag>, #[serde(default)]
DecodeTags(f) ==
    IF f = None THEN Ok(<<>>)
    ELSE IF ~IsArr(f[1]) THEN Err("invalid type")
    ELSE LET rs == [i \in DOMAIN f[1].arr |-> DecodeEntity(f[1].arr[i])]
         IN IF AllOk(rs) THEN Ok(Unwrap(rs)) ELSE Err("invalid value")
EncodeTags(t) ==
    IF t = <<>> THEN <<>> ELSE << <<"tags", JArr([i \in DOMAIN t |-> EncodeEntity(t[i])])>> >>

\* external_docs: Option<ExternalDocumentation>
DecodeExternalDocs(f) ==
    IF f = None \/ IsNull(f[1]) THEN Ok(None)
    ELSE IF IsOk(DecodeEntity(f[1])) THEN Ok(Some(DecodeEntity(f[1]).ok))
    ELSE DecodeEntity(f[1])
EncodeExternalDocs(o) ==
    IF o = None THEN <<>> ELSE << <<"externalDocs", EncodeEntity(o[1])>> >>

\* traits: Vec<ReferenceOr<OperationTrait>>, #[serde(default)]
DecodeTraits(f) ==
    IF f = None THEN Ok(<<>>)
    ELSE IF ~IsArr(f[1]) THEN Err("invalid type")
    ELSE LET rs == [i \in DOMAIN f[1].arr |-> DecodeReferenceOr(f[1].arr[i])]
         IN IF AllOk(rs) THEN Ok(Unwrap(rs)) ELSE Err("invalid value")
EncodeTraits(t) ==
    IF t = <<>> THEN <<>>
    ELSE << <<"traits", JArr([i \in DOMAIN t |-> EncodeReferenceOr(t[i])])>> >>

OperationExtensions(m) == CollectExtensions(m, OperationFieldNames)

\* Deserialize for Operation.
DecodeOperation(m) ==
    LET action == DecodeAction(Field(m, "action"))
        channel == DecodeOperationChannel(Field(m, "channel"))
        messages == DecodeOperationMessages(Field(m, "messages"))
        operation_id == DecodeOptionString(Field(m, "operationId"))
        summary == DecodeOptionString(Field(m, "summary"))
        description == DecodeOptionString(Field(m, "description"))
        tags == DecodeTags(Field(m, "tags"))
        external_docs == DecodeExternalDocs(Field(m, "externalDocs"))
        bindings == DecodeOptionReferenceOr(Field(m, "bindings"))
        traits == DecodeTraits(Field(m, "traits"))
    IN IF \E k \in OperationFieldNames : Count(m, k) > 1 THEN Err("duplicate field")
       ELSE IF ~IsOk(action) THEN action
       ELSE IF ~IsOk(channel) THEN channel
       ELSE IF ~IsOk(messages) THEN messages
       ELSE IF ~IsOk(operation_id) THEN operation_id
       ELSE IF ~IsOk(summary) THEN summary
       ELSE IF ~IsOk(description) THEN description
       ELSE IF ~IsOk(tags) THEN tags
       ELSE IF ~IsOk(external_docs) THEN external_docs
       ELSE IF ~IsOk(bindings) THEN bindings
       ELSE IF ~IsOk(traits) THEN traits
       ELSE Ok([action |-> action.ok,
                channel |-> channel.ok,
                messages |-> messages.ok,
                operation_id |-> operation_id.ok,
                summary |-> summary.ok,
                description |-> description.ok,
                tags |-> tags.ok,
                external_docs |-> external_docs.ok,
                bindings |-> bindings.ok,
                traits |-> traits.ok,
                extensions |-> OperationExtensions(m)])

\* Serialize for Operation: the fields in declaration order.
EncodeOperation(o) ==
    << <<"action", EncodeActionType(o.action)>> >>
    \o EncodeOperationChannel(o.channel)
    \o EncodeOperationMessages(o.messages)
    \o EncodeOptionString("operationId", o.operation_id)
    \o EncodeOptionString("summary", o.summary)
    \o EncodeOptionString("description", o.description)
    \o EncodeTags(o.tags)
    \o EncodeExternalDocs(o.external_docs)
    \o EncodeOptionReferenceOr("bindings", o.bindings)
    \o EncodeTraits(o.traits)
    \o EmitExtensions(o.extensions)

----------------------------------------------------------------------------
\* The documents and values a run starts from.

Ref(p) == JObj(<< <<"$ref", JStr(p)>> >>)
Member(k, v) == << <<k, v>> >>

Names == {"a", "$ref"}
Pointers == {"#/components/messages/a", "#/m"}

ChannelMessagesDocs ==
    {<<>>,
     Member("messages", JObj(<<>>)),
     Member("messages", JStr("a")),
     Member("messages", JObj(<< <<"a", JNull>> >>)),
     Member("messages", JObj(<< <<"a", JObj(<< <<"b", Ref("#/m")>> >>)>> >>)),
     Member("messages", JObj(<< <<"a", JObj(<< <<"name", JStr("n")>> >>)>> >>)),
     Member("messages", JObj(<< <<"a", Ref("#/m")>>, <<"b", JNull>> >>))}
    \cup {Member("messages", Ref(p)) : p \in Pointers}
    \cup {Member("messages", JObj(<< <<n, Ref(p)>> >>)) : n \in Names, p \in Pointers}

AddressDocs ==
    {<<>>, Member("address", JNull), Member("address", JStr("s")), Member("address", JNum(5))}
DescriptionDocs == {<<>>, Member("description", JStr("d"))}
ServersDocs ==
    {<<>>, Member("servers", JArr(<<>>)), Member("servers", JArr(<<JStr("s")>>)),
     Member("servers", JArr(<<JNum(5)>>))}
ParametersDocs ==
    {<<>>, Member("parameters", JObj(<<>>)),
     Member("parameters", JObj(<< <<"id", Ref("#/p")>> >>))}
BindingsDocs == {<<>>, Member("bindings", Ref("#/b"))}
ReferenceDocs == {<<>>, Member("$ref", JStr("#/c"))}

\* Extension fields: key i of the pool may appear when i <= MaxExt.  The
\* Rust names "reference" and "extensions" are no document field names.
ExtPool ==
    << <<"x-team", JStr("payments")>>, <<"reference", JNull>>,
       <<"extensions", JObj(<< <<"k", JNum(1)>> >>)>>, <<"x-c", JArr(<<>>)>> >>
ExtRange == 1 .. (IF MaxExt < Len(ExtPool) THEN MaxExt ELSE Len(ExtPool))
ExtOrders ==
    {s \in UNION {[1 .. n -> ExtRange] : n \in 0 .. MaxExt} :
        \A i, j \in DOMAIN s : i # j => s[i] # s[j]}
ExtMembers(s) == [i \in DOMAIN s |-> ExtPool[s[i]]]

\* The first extension field is written before the declared fields, the
\* others after them.
Layout(declared, ext) ==
    IF ext = <<>> THEN declared ELSE <<Head(ext)>> \o declared \o Tail(ext)

InitChannelDoc ==
    \E ms \in ChannelMessagesDocs, ad \in AddressDocs, de \in DescriptionDocs,
       se \in ServersDocs, pa \in ParametersDocs, bi \in BindingsDocs,
       re \in ReferenceDocs, ex \in ExtOrders :
        /\ entity = "Channel"
        /\ hist = << [doc |-> Layout(ms \o ad \o de \o se \o pa \o bi \o re, ExtMembers(ex))] >>

ActionDocs ==
    {<<>>, Member("action", JStr("send")), Member("action", JStr("receive")),
     Member("action", JStr("publish")), Member("action", JObj(<< <<"send", JNull>> >>))}
OperationChannelDocs ==
    {<<>>, Member("channel", JNull), Member("channel", Ref("#/channels/c")),
     Member("channel", JStr("c"))}
OperationMessagesDocs ==
    {<<>>, Member("messages", JNull), Member("messages", JArr(<<>>)),
     Member("messages", JArr(<<JStr("m"), Ref("#/m"), JNull>>)),
     Member("messages", JStr("m"))}
OperationIdDocs ==
    {<<>>, Member("operationId", JNull), Member("operationId", JStr("op")),
     Member("operationId", JNum(5))}
SummaryDocs == {<<>>, Member("summary", JStr("s"))}
OperationDescriptionDocs == {<<>>, Member("description", JNull)}
TagsDocs ==
    {<<>>, Member("tags", JArr(<<>>)),
     Member("tags", JArr(<<JObj(<< <<"name", JStr("user")>> >>)>>))}
\* externalDocs, bindings and traits, chosen together.
NestedDocs ==
    {<<>>,
     Member("externalDocs", JObj(<< <<"url", JStr("u")>> >>))
        \o Member("bindings", Ref("#/b")) \o Member("traits", JArr(<<Ref("#/t")>>)),
     Member("externalDocs", JNull) \o Member("bindings", JNull)
        \o Member("traits", JArr(<<>>))}

InitOperationDoc ==
    \E ac \in ActionDocs, ch \in OperationChannelDocs, ms \in OperationMessagesDocs,
       id \in OperationIdDocs, su \in SummaryDocs, de \in OperationDescriptionDocs,
       ta \in TagsDocs, ne \in NestedDocs, ex \in ExtOrders :
        /\ entity = "Operation"
        /\ hist = << [doc |-> Layout(ac \o ch \o ms \o id \o su \o de \o ta \o ne,
                                     ExtMembers(ex))] >>

\* Values built from the public fields.  A bag of a value may hold any key,
\* a declared field name included.
ValueExtPool(name) ==
    << <<"x-team", JStr("payments")>>, <<name, JStr("s")>>,
       <<"x-b", JObj(<< <<"k", JNum(1)>> >>)>>, <<"x-c", JArr(<<>>)>> >>
ValueExtensions(name, s) == [i \in DOMAIN s |-> ValueExtPool(name)[s[i]]]

MessageItem(m) == [Item |-> [entity |-> m]]

ChannelMessagesValues ==
    {<<>>,
     << <<"a", None>> >>,
     << <<"a", Some([Single |-> [Reference |-> "#/m"]])>> >>,
     << <<"a", Some([Map |-> << <<"b", [Reference |-> "#/m"]>> >>])>> >>,
     << <<"a", Some([Map |-> <<>>])>> >>,
     << <<"a", Some([Single |-> MessageItem(<< <<"name", JStr("n")>> >>)])>> >>,
     << <<"a", Some([Single |-> MessageItem(<<>>)])>>, <<"b", None>> >>}

InitChannelValue ==
    \E ms \in ChannelMessagesValues, ad \in {None, Some("s")},
       se \in {<<>>, <<"s">>}, pa \in {<<>>, << <<"id", [Reference |-> "#/p"]>> >>},
       bi \in {None, Some([Reference |-> "#/b"])}, re \in {None, Some("#/c")},
       ex \in ExtOrders :
        /\ entity = "Channel"
        /\ hist = << [val |-> [messages |-> ms, address |-> ad, description |-> None,
                               servers |-> se, parameters |-> pa, bindings |-> bi,
                               extensions |-> ValueExtensions("description", ex),
                               reference |-> re]] >>

OperationChannelValues ==
    {None, Some([Schema |-> [schema |-> << <<"$ref", JStr("#/channels/c")>> >>]]),
     Some([Any |-> JStr("c")]), Some([Any |-> JNull]),
     Some([Any |-> JObj(<< <<"type", JStr("object")>> >>)])}
OperationMessagesValues ==
    {None, Some(<<>>),
     Some(<<[Any |-> JStr("m")], [Schema |-> [schema |-> <<>>]], [Any |-> JNull]>>),
     Some(<<[Any |-> JObj(<<>>)]>>)}

InitOperationValue ==
    \E ac \in {"Receive", "Send"}, ch \in OperationChannelValues,
       ms \in OperationMessagesValues, id \in {None, Some("op")},
       ta \in {<<>>, <<[entity |-> << <<"name", JStr("user")>> >>]>>},
       ed \in {None, Some([entity |-> << <<"url", JStr("u")>> >>])},
       tr \in {<<>>, <<[Reference |-> "#/t"]>>}, ex \in ExtOrders :
        /\ entity = "Operation"
        /\ hist = << [val |-> [action |-> ac, channel |-> ch, messages |-> ms,
                               operation_id |-> id, summary |-> None,
                               description |-> None, tags |-> ta,
                               external_docs |-> ed, bindings |-> None, traits |-> tr,
                               extensions |-> ValueExtensions("summary", ex)]] >>

Init == InitChannelDoc \/ InitOperationDoc \/ InitChannelValue \/ InitOperationValue

----------------------------------------------------------------------------
\* The steps of a run.

Last == hist[Len(hist)]
IsDoc(s) == "doc" \in DOMAIN s
IsVal(s) == "val" \in DOMAIN s
IsErr(s) == "err" \in DOMAIN s
Stage(r) == IF IsOk(r) THEN [val |-> r.ok] ELSE [err |-> r.err]

DecodeChannelStep ==
    /\ entity = "Channel"
    /\ Len(hist) < MaxSteps
    /\ IsDoc(Last)
    /\ hist' = Append(hist, Stage(DecodeChannel(Last.doc)))
    /\ UNCHANGED entity

EncodeChannelStep ==
    /\ entity = "Channel"
    /\ Len(hist) < MaxSteps
    /\ IsVal(Last)
    /\ hist' = Append(hist, [doc |-> EncodeChannel(Last.val)])
    /\ UNCHANGED entity

DecodeOperationStep ==
    /\ entity = "Operation"
    /\ Len(hist) < MaxSteps
    /\ IsDoc(Last)
    /\ hist' = Append(hist, Stage(DecodeOperation(Last.doc)))
    /\ UNCHANGED entity

EncodeOperationStep ==
    /\ entity = "Operation"
    /\ Len(hist) < MaxSteps
    /\ IsVal(Last)
    /\ hist' = Append(hist, [doc |-> EncodeOperation(Last.val)])
    /\ UNCHANGED entity

Next ==
    \/ DecodeChannelStep
    \/ EncodeChannelStep
    \/ DecodeOperationStep
    \/ EncodeOperationStep

Spec == Init /\ [][Next]_vars

----------------------------------------------------------------------------
\* What the declared types admit, stated member by member.

Doc0 == hist[1].doc
FromDoc == IsDoc(hist[1])
FromValue == IsVal(hist[1])
DeclaredNames == IF entity = "Channel" THEN ChannelFieldNames ELSE OperationFieldNames

StringOrNull(f) == f = None \/ IsNull(f[1]) \/ IsStr(f[1])
ObjectOrNull(f) == f = None \/ IsNull(f[1]) \/ IsObj(f[1])
ArrayOfObjects(j) == IsArr(j) /\ \A i \in DOMAIN j.arr : IsObj(j.arr[i])
ObjectOfObjects(j) == IsObj(j) /\ \A i \in DOMAIN j.obj : IsObj(j.obj[i][2])
AcceptedActions ==
    {JStr("send"), JStr("receive"),
     JObj(<< <<"send", JNull>> >>), JObj(<< <<"receive", JNull>> >>)}

\* The declared fields of a channel document that are missing though
\* required, or hold a value their type does not admit.
ChannelFaults(m) ==
    {k \in {"messages"} :
        \/ Field(m, k) = None
        \/ ~IsObj(Field(m, k)[1])
        \/ \E i \in DOMAIN Field(m, k)[1].obj :
              LET e == Field(m, k)[1].obj[i][2] IN ~IsNull(e) /\ ~IsObj(e)}
    \cup {k \in {"address", "description", "$ref"} : ~StringOrNull(Field(m, k))}
    \cup {k \in {"servers"} :
            /\ Field(m, k) # None
            /\ ~(IsArr(Field(m, k)[1])
                 /\ \A i \in DOMAIN Field(m, k)[1].arr : IsStr(Field(m, k)[1].arr[i]))}
    \cup {k \in {"parameters"} : Field(m, k) # None /\ ~ObjectOfObjects(Field(m, k)[1])}
    \cup {k \in {"bindings"} : ~ObjectOrNull(Field(m, k))}

\* The same for an operation document.  No value of "channel" and no element
\* of "messages" is a fault.
OperationFaults(m) ==
    {k \in {"action"} : Field(m, k) = None \/ Field(m, k)[1] \notin AcceptedActions}
    \cup {k \in {"messages"} :
            Field(m, k) # None /\ ~IsNull(Field(m, k)[1]) /\ ~IsArr(Field(m, k)[1])}
    \cup {k \in {"operationId", "summary", "description"} : ~StringOrNull(Field(m, k))}
    \cup {k \in {"tags", "traits"} : Field(m, k) # None /\ ~ArrayOfObjects(Field(m, k)[1])}
    \cup {k \in {"externalDocs", "bindings"} : ~ObjectOrNull(Field(m, k))}

Faults(m) == IF entity = "Channel" THEN ChannelFaults(m) ELSE OperationFaults(m)

\* The members of a document whose key is no declared field name, in order.
RECURSIVE UndeclaredMembers(_)
UndeclaredMembers(m) ==
    IF m = <<>> THEN <<>>
    ELSE IF Head(m)[1] \in DeclaredNames THEN UndeclaredMembers(Tail(m))
    ELSE <<Head(m)>> \o UndeclaredMembers(Tail(m))
KeySequence(m) == [i \in DOMAIN m |-> m[i][1]]
Members(m) == {m[i] : i \in DOMAIN m}

----------------------------------------------------------------------------
\* C3.  As claimed: an operation document without "action" decodes to the
\* default action Receive, and "send" / "receive" decode to Send / Receive.
C3_AbsentActionDefaults ==
    (FromDoc /\ entity = "Operation" /\ Len(hist) >= 2 /\ Faults(Doc0) \subseteq {"action"})
    => /\ Field(Doc0, "action") = None
          => IsVal(hist[2]) /\ hist[2].val.action = DefaultActionType
       /\ Field(Doc0, "action") = Some(JStr("send"))
          => IsVal(hist[2]) /\ hist[2].val.action = "Send"
       /\ Field(Doc0, "action") = Some(JStr("receive"))
          => IsVal(hist[2]) /\ hist[2].val.action = "Receive"

\* C3, amended.  An operation document without "action" is rejected: the
\* field is required.  "send" decodes to Send and "receive" to Receive
\* whenever no other declared field is at fault.
C3_AbsentActionRejected ==
    (FromDoc /\ entity = "Operation" /\ Len(hist) >= 2)
    => /\ Field(Doc0, "action") = None => IsErr(hist[2])
       /\ (Field(Doc0, "action") = Some(JStr("send")) /\ Faults(Doc0) = {})
          => IsVal(hist[2]) /\ hist[2].val.action = "Send"
       /\ (Field(Doc0, "action") = Some(JStr("receive")) /\ Faults(Doc0) = {})
          => IsVal(hist[2]) /\ hist[2].val.action = "Receive"

C3_Witness ==
    /\ FromDoc /\ entity = "Operation" /\ Len(hist) >= 2
    /\ Field(Doc0, "action") = None
    /\ Faults(Doc0) = {"action"}
    /\ IsErr(hist[2])

\* C7.  A document with a declared field missing though required, or of the
\* wrong type, decodes to an error: no value is returned for it.
C7_FaultIsError ==
    (FromDoc /\ Len(hist) >= 2 /\ Faults(Doc0) # {}) => IsErr(hist[2])

C7_Witness ==
    /\ FromDoc /\ Len(hist) >= 2
    /\ Faults(Doc0) = {"address"}
    /\ UndeclaredMembers(Doc0) # <<>>
    /\ IsErr(hist[2])

\* C5.  Every member whose key is no declared field name is stored in the
\* extension bag, and is a member of the re-encoded object itself; decoding
\* succeeds whenever no declared field is at fault.
C5_ExtensionsFlattened ==
    (FromDoc /\ Len(hist) >= 2 /\ Faults(Doc0) = {})
    => /\ IsVal(hist[2])
       /\ Members(UndeclaredMembers(Doc0)) = Members(hist[2].val.extensions)
       /\ Len(hist) >= 3
          => /\ Members(UndeclaredMembers(Doc0)) \subseteq Members(hist[3].doc)
             /\ KeysOf(hist[3].doc) \ DeclaredNames = KeysOf(UndeclaredMembers(Doc0))

C5_Witness ==
    /\ FromDoc /\ entity = "Operation" /\ Len(hist) >= 3
    /\ IsVal(hist[2]) /\ hist[2].val.action = "Send"
    /\ <<"x-team", JStr("payments")>> \in Members(Doc0)
    /\ <<"x-team", JStr("payments")>> \in Members(hist[2].val.extensions)
    /\ <<"x-team", JStr("payments")>> \in Members(hist[3].doc)

\* C9.  The extension bag holds the undeclared members in document order,
\* and the re-encoded document has them in that order.
C9_ExtensionOrderKept ==
    (FromDoc /\ Len(hist) >= 2 /\ IsVal(hist[2]))
    => /\ KeySequence(hist[2].val.extensions) = KeySequence(UndeclaredMembers(Doc0))
       /\ Len(hist) >= 3
          => KeySequence(UndeclaredMembers(hist[3].doc))
                = KeySequence(UndeclaredMembers(Doc0))

C9_Witness ==
    /\ FromDoc /\ Len(hist) >= 3 /\ IsVal(hist[2])
    /\ Len(UndeclaredMembers(Doc0)) >= 2
    /\ KeySequence(UndeclaredMembers(hist[3].doc)) = KeySequence(UndeclaredMembers(Doc0))

\* The variant of a value: Schema when Schema accepts it, Any otherwise.
SchemaOrAny(j) ==
    IF IsOk(DecodeSchema(j)) THEN [Schema |-> DecodeSchema(j).ok] ELSE [Any |-> j]

\* C8.  An operation document whose declared fields are not at fault
\* decodes, whatever its "channel" value and the elements of its "messages"
\* list are: a value Schema accepts is the Schema variant, any other value
\* is Any holding that value, and the value is re-encoded as it was.
C8_ChannelAndMessagesNeverFail ==
    (FromDoc /\ entity = "Operation" /\ Len(hist) >= 2 /\ Faults(Doc0) = {})
    => LET ch == Field(Doc0, "channel")
           ms == Field(Doc0, "messages")
       IN /\ IsVal(hist[2])
          /\ (ch # None /\ ~IsNull(ch[1]))
             => /\ hist[2].val.channel = Some(SchemaOrAny(ch[1]))
                /\ Len(hist) >= 3 => Field(hist[3].doc, "channel") = ch
          /\ (ms # None /\ ~IsNull(ms[1]))
             => /\ hist[2].val.messages
                      = Some([i \in DOMAIN ms[1].arr |-> SchemaOrAny(ms[1].arr[i])])
                /\ Len(hist) >= 3 => Field(hist[3].doc, "messages") = ms

C8_Witness ==
    /\ FromDoc /\ entity = "Operation" /\ Len(hist) >= 3 /\ IsVal(hist[2])
    /\ Field(Doc0, "channel") = Some(JStr("c"))
    /\ hist[2].val.channel = Some([Any |-> JStr("c")])
    /\ Field(hist[3].doc, "channel") = Some(JStr("c"))
    /\ Field(Doc0, "messages") # None
    /\ hist[2].val.messages # None
    /\ \E i \in DOMAIN hist[2].val.messages[1] :
          hist[2].val.messages[1][i] = [Any |-> JStr("m")]

\* C6.  A channel document whose "messages" is {n: {"$ref": p}} decodes, and
\* is re-encoded with "messages": {n: {"$ref": p}}.
C6_MessageMappingKept ==
    (FromDoc /\ entity = "Channel" /\ Len(hist) >= 2 /\ Faults(Doc0) = {})
    => \A n \in Names, p \in Pointers :
          Field(Doc0, "messages") = Some(JObj(<< <<n, Ref(p)>> >>))
          => /\ IsVal(hist[2])
             /\ Len(hist) >= 3
                => Field(hist[3].doc, "messages") = Some(JObj(<< <<n, Ref(p)>> >>))

C6_Witness ==
    /\ FromDoc /\ entity = "Channel" /\ Len(hist) >= 3 /\ IsVal(hist[2])
    /\ Field(Doc0, "messages")
          = Some(JObj(<< <<"a", Ref("#/components/messages/a")>> >>))
    /\ Field(hist[3].doc, "messages") = Field(Doc0, "messages")

\* C4.  As claimed: "messages" given as one reference object {"$ref": p}
\* decodes to the single-message variant carrying p (a value that is written
\* back as {"$ref": p}), and "messages" given as a mapping of names to
\* references decodes to the mapping of those names.
MappingOfReferences(j) ==
    IsObj(j) /\ j.obj # <<>> /\ \A i \in DOMAIN j.obj : IsReferenceObject(j.obj[i][2])

C4_SingleOrMappingByShape ==
    (FromDoc /\ entity = "Channel" /\ Len(hist) >= 2
        /\ Field(Doc0, "messages") # None /\ Faults(Doc0) \subseteq {"messages"})
    => LET j == Field(Doc0, "messages")[1]
       IN /\ IsReferenceObject(j)
             => /\ IsVal(hist[2])
                /\ Len(hist) >= 3 => Field(hist[3].doc, "messages") = Some(j)
          /\ MappingOfReferences(j)
             => /\ IsVal(hist[2])
                /\ KeySequence(hist[2].val.messages) = KeySequence(j.obj)

\* C4, amended.  "messages" is a mapping of names to entries, and the shape
\* of each entry alone chooses its variant: a reference object {"$ref": p} is
\* the Single variant carrying p, a mapping of names to references is the Map
\* variant, null is no entry value.  "messages" given as one reference
\* object {"$ref": p} is rejected: its entry "$ref" holds a string.
C4_EntryVariantByShape ==
    (FromDoc /\ entity = "Channel" /\ Len(hist) >= 2
        /\ Field(Doc0, "messages") # None /\ Faults(Doc0) \subseteq {"messages"})
    => LET j == Field(Doc0, "messages")[1]
       IN /\ IsReferenceObject(j) => IsErr(hist[2])
          /\ (IsObj(j) /\ Faults(Doc0) = {})
             => /\ IsVal(hist[2])
                /\ KeySequence(hist[2].val.messages) = KeySequence(j.obj)
                /\ \A i \in DOMAIN j.obj :
                      LET e == j.obj[i][2]
                          d == hist[2].val.messages[i][2]
                      IN /\ IsNull(e) => d = None
                         /\ IsReferenceObject(e)
                            => d = Some([Single |-> [Reference |-> e.obj[1][2].str]])
                         /\ MappingOfReferences(e)
                            => d = Some([Map |-> [k \in DOMAIN e.obj |->
                                    <<e.obj[k][1],
                                      [Reference |-> e.obj[k][2].obj[1][2].str]>>]])

C4_Witness ==
    /\ FromDoc /\ entity = "Channel" /\ Len(hist) >= 2
    /\ Field(Doc0, "messages") = Some(Ref("#/m"))
    /\ Faults(Doc0) = {"messages"}
    /\ IsErr(hist[2])

\* C2.  As claimed: the re-encoded document has the key set of the decoded
\* document and an equal value for every key.
C2_SameKeysAndValues ==
    (FromDoc /\ Len(hist) >= 3 /\ IsVal(hist[2]))
    => /\ KeysOf(hist[3].doc) = KeysOf(Doc0)
       /\ \A k \in KeysOf(Doc0) : Field(hist[3].doc, k) = Field(Doc0, k)

\* The keys encoding leaves out: an optional field that is null, and a list
\* or map field with a default that is empty.
NullableKeys ==
    IF entity = "Channel" THEN {"address", "description", "bindings", "$ref"}
    ELSE {"channel", "messages", "operationId", "summary", "description",
          "externalDocs", "bindings"}
EmptiableKeys == IF entity = "Channel" THEN {"servers", "parameters"} ELSE {"tags", "traits"}
DroppedKeys(m) ==
    {k \in NullableKeys : Field(m, k) = Some(JNull)}
    \cup {k \in EmptiableKeys : Field(m, k) \in {Some(JArr(<<>>)), Some(JObj(<<>>))}}
\* An action read from the object form {name: null} is written as its name.
WrittenForm(k, v) ==
    IF entity = "Operation" /\ k = "action" /\ IsObj(v) THEN JStr(v.obj[1][1]) ELSE v

\* C2, amended.  The re-encoded document has the keys of the decoded document
\* except those of optional fields that were null and of defaulted list or
\* map fields that were empty, each key once, and an equal value for every
\* key kept ("action" in its string form).
C2_KeysKeptExceptNullAndEmpty ==
    (FromDoc /\ Len(hist) >= 3 /\ IsVal(hist[2]))
    => /\ KeysOf(hist[3].doc) = KeysOf(Doc0) \ DroppedKeys(Doc0)
       /\ Len(hist[3].doc) = Cardinality(KeysOf(hist[3].doc))
       /\ \A k \in KeysOf(hist[3].doc) :
             Lookup(hist[3].doc, k) = WrittenForm(k, Lookup(Doc0, k))

C2_Witness ==
    /\ FromDoc /\ entity = "Channel" /\ Len(hist) >= 3 /\ IsVal(hist[2])
    /\ Field(Doc0, "servers") = Some(JArr(<<>>))
    /\ Field(Doc0, "address") = Some(JNull)
    /\ Field(Doc0, "description") = Some(JStr("d"))
    /\ KeysOf(hist[3].doc) = KeysOf(Doc0) \ {"servers", "address"}

C1_EveryValueRoundTrips ==
    (FromValue /\ Len(hist) >= 3) => hist[3] = hist[1]

\* The values decoding can give back: no key of the bag is a declared field
\* name, no Any holds a value Schema accepts, the operation's channel is not
\* Any(null), and no Single entry holds an inline message whose encoding the
\* Map matcher accepts.
CanonicalChannel(c) ==
    /\ KeysOf(c.extensions) \cap ChannelFieldNames = {}
    /\ \A i \in DOMAIN c.messages :
          LET e == c.messages[i][2]
          IN (e # None /\ "Single" \in DOMAIN e[1] /\ "Item" \in DOMAIN e[1].Single)
             => ~IsOk(DecodeReferenceMap(EncodeEntity(e[1].Single.Item)))
CanonicalOperation(o) ==
    /\ KeysOf(o.extensions) \cap OperationFieldNames = {}
    /\ (o.channel # None /\ "Any" \in DOMAIN o.channel[1])
       => ~IsNull(o.channel[1].Any) /\ ~IsOk(DecodeSchema(o.channel[1].Any))
    /\ o.messages # None
       => \A i \in DOMAIN o.messages[1] :
             "Any" \in DOMAIN o.messages[1][i] => ~IsOk(DecodeSchema(o.messages[1][i].Any))
Canonical(v) == IF entity = "Channel" THEN CanonicalChannel(v) ELSE CanonicalOperation(v)

\* C1, amended.  A value is decoded back from its encoding exactly when it is
\* one decoding can give back.
C1_CanonicalValuesRoundTrip ==
    (FromValue /\ Len(hist) >= 3) => (hist[3] = hist[1] <=> Canonical(hist[1].val))

C1_Witness ==
    /\ FromValue /\ entity = "Operation" /\ Len(hist) >= 3
    /\ Canonical(hist[1].val)
    /\ hist[1].val.channel = Some([Any |-> JStr("c")])
    /\ hist[1].val.messages # None /\ hist[1].val.messages # Some(<<>>)
    /\ hist[1].val.extensions # <<>>
    /\ hist[3] = hist[1]

====
